---- MODULE Spec2Model ----
(***************************************************************************)
(* Model of heare.ids (src/src/heare/ids/__init__.py): base-62 tokens of   *)
(* the shape <prefix>_<generation><timestamp-62><entropy>.                 *)
(*                                                                         *)
(* A Python str is modelled as a sequence of one-character strings, with   *)
(* Python's 0-based indexing and slicing kept (PyIndex, PySlice).  A       *)
(* timestamp (a Python float) is modelled exactly as sign, whole seconds   *)
(* and an optional half second, so that truncation and truthiness are      *)
(* computed and not assumed.                                               *)
(***************************************************************************)
EXTENDS Integers, Sequences, FiniteSets

VARIABLES _VALID_GENERATIONS, now, accepted, last

vars == <<_VALID_GENERATIONS, now, accepted, last>>

(***************************************************************************)
(* Program constants                                                       *)
(***************************************************************************)
B62_CHARSET ==
    << "0", "1", "2", "3", "4", "5", "6", "7", "8", "9",
       "A", "B", "C", "D", "E", "F", "G", "H", "I", "J", "K", "L", "M",
       "N", "O", "P", "Q", "R", "S", "T", "U", "V", "W", "X", "Y", "Z",
       "a", "b", "c", "d", "e", "f", "g", "h", "i", "j", "k", "l", "m",
       "n", "o", "p", "q", "r", "s", "t", "u", "v", "w", "x", "y", "z" >>

Base == 62

TsWidth == 8

TsEnd == 9

DefaultEntropy == 10

(***************************************************************************)
(* Python str primitives                                                   *)
(***************************************************************************)
Range(s) == {s[i] : i \in 1..Len(s)}

Charset == Range(B62_CHARSET)

\* c in B62_CHARSET, for a single character c
InCharset(c) == c \in Charset

\* B62_CHARSET.index(x): 0-based position of x (x is in the charset)
CharsetIndex(x) == (CHOOSE i \in 1..Len(B62_CHARSET) : B62_CHARSET[i] = x) - 1

\* s.rfind(c): highest 0-based index of c in s, -1 when c does not occur
rfind(s, c) ==
    IF \E i \in 1..Len(s) : s[i] = c
    THEN (CHOOSE i \in 1..Len(s) : s[i] = c /\ \A j \in (i+1)..Len(s) : s[j] # c) - 1
    ELSE -1

\* one bound of a slice: negative counts from the end, then clamped to 0..len
SliceBound(len, i) ==
    IF i < 0 THEN (IF len + i < 0 THEN 0 ELSE len + i)
    ELSE (IF i > len THEN len ELSE i)

\* s[start:stop]
PySlice(s, start, stop) ==
    LET a == SliceBound(Len(s), start)
        b == SliceBound(Len(s), stop)
    IN  IF a < b THEN SubSeq(s, a + 1, b) ELSE <<>>

\* s[:stop]
PySliceTo(s, stop) == PySlice(s, 0, stop)

\* s[start:]
PySliceFrom(s, start) == PySlice(s, start, Len(s))

\* s[i] raises IndexError exactly when i is outside -len..len-1
IndexRaises(s, i) == i >= Len(s) \/ i < -Len(s)

PyIndex(s, i) == IF i < 0 THEN s[Len(s) + i + 1] ELSE s[i + 1]

\* s.lstrip(c)
RECURSIVE lstrip(_, _)
lstrip(s, c) == IF s # <<>> /\ Head(s) = c THEN lstrip(Tail(s), c) ELSE s

\* s.zfill(width) for a string without a sign character
RECURSIVE zfill(_, _)
zfill(s, width) == IF Len(s) < width THEN zfill(<<"0">> \o s, width) ELSE s

RECURSIVE Pow(_, _)
Pow(b, e) == IF e = 0 THEN 1 ELSE b * Pow(b, e - 1)

(***************************************************************************)
(* Base-62 codec                                                           *)
(***************************************************************************)
RECURSIVE encode_loop(_, _)
encode_loop(n, chars) ==
    IF n > 0
    THEN encode_loop(n \div Base, <<B62_CHARSET[(n % Base) + 1]>> \o chars)
    ELSE chars

\* faulty variant of _b62_encode: the case of no digits is not special
encode_no_zero_case(n) == encode_loop(n, <<>>)

_b62_encode(n) ==
    LET chars == encode_loop(n, <<>>)
    IN  IF chars = <<>> THEN <<"0">> ELSE chars

\* B62_CHARSET.index(x) raises ValueError for a character outside the charset
decode_raises(encoded) == \E i \in 1..Len(encoded) : ~InCharset(encoded[i])

RECURSIVE decode_loop(_, _, _)
decode_loop(encoded, i, v) ==
    IF i = Len(encoded) THEN v
    ELSE decode_loop(encoded, i + 1,
                     v + CharsetIndex(encoded[i + 1]) * Pow(Base, Len(encoded) - (i + 1)))

_b62_decode(encoded) == decode_loop(encoded, 0, 0)

(***************************************************************************)
(* Timestamps: a finite float is sign, whole seconds and an optional half   *)
(* second; the floats nan and inf are values of their own                  *)
(***************************************************************************)
None == [kind |-> "None"]

Float(neg, sec, half) == [kind |-> "float", neg |-> neg, sec |-> sec, half |-> half]

NaN == [kind |-> "nan"]

Infinity == [kind |-> "inf"]

\* Python truthiness of the timestamp argument: None, 0, 0.0 and -0.0 are falsy
Truthy(t) == t.kind # "None" /\ (t.kind = "float" => (t.sec # 0 \/ t.half))

\* int(ts) raises ValueError for nan and OverflowError for inf
int_raises(t) ==
    IF t.kind = "nan" THEN "ValueError"
    ELSE IF t.kind = "inf" THEN "OverflowError"
    ELSE "none"

\* int(ts) of a finite float: truncation toward zero
int(t) == IF t.neg THEN 0 - t.sec ELSE t.sec

(***************************************************************************)
(* register_generation                                                     *)
(***************************************************************************)
\* faulty variant of register_generation_raises: >= in place of >
register_raises_on_any_char(generation) == Len(generation) >= 1

register_generation_raises(generation) == Len(generation) > 1

register_generation(registry, generation) ==
    IF register_generation_raises(generation) THEN registry
    ELSE registry \cup {generation}

(***************************************************************************)
(* new                                                                     *)
(***************************************************************************)
IntEntropy(n) == [kind |-> "int", n |-> n]

StrEntropy(s) == [kind |-> "str", s |-> s]

OtherEntropy == [kind |-> "float"]

\* random.sample(B62_CHARSET, k) raises ValueError for k < 0 or k > 62
sample_raises(k) == k < 0 \/ k > Len(B62_CHARSET)

\* one outcome of random.sample: k distinct characters, here the k that
\* follow position start of the charset, wrapping round
SampleAt(start, k) == [i \in 1..k |-> B62_CHARSET[((start + i - 1) % Len(B62_CHARSET)) + 1]]

\* ts = timestamp or datetime.datetime.now().timestamp()
new_ts(timestamp, clock) == IF Truthy(timestamp) THEN timestamp ELSE clock

\* "none", or the error new raises
new_raises(registry, generation, timestamp, entropy, clock) ==
    IF generation \notin registry THEN "ValueError"
    ELSE IF int_raises(new_ts(timestamp, clock)) # "none"
         THEN int_raises(new_ts(timestamp, clock))
    ELSE IF entropy.kind = "int"
         THEN (IF sample_raises(entropy.n) THEN "ValueError" ELSE "none")
    ELSE IF entropy.kind = "str" THEN "none"
    ELSE "ValueError"

\* the token new returns; drawn is the outcome of random.sample
new(prefix, generation, timestamp, entropy, clock, drawn) ==
    LET ts          == int(new_ts(timestamp, clock))
        ts_encoded  == zfill(_b62_encode(ts), TsWidth)
        entropy_str == IF entropy.kind = "int" THEN drawn ELSE entropy.s
    IN  prefix \o <<"_">> \o generation \o ts_encoded \o entropy_str

(***************************************************************************)
(* is_valid, parse, swap_prefix                                            *)
(***************************************************************************)
\* faulty variant of is_valid: splits at the first '_' (find for rfind)
is_valid_first_delimiter(token) ==
    LET first  == IF \E i \in 1..Len(token) : token[i] = "_"
                  THEN (CHOOSE i \in 1..Len(token) :
                            token[i] = "_" /\ \A j \in 1..(i-1) : token[j] # "_") - 1
                  ELSE -1
        prefix == PySliceTo(token, first)
        suffix == PySliceFrom(token, first + 1)
    IN  /\ \A i \in 1..Len(prefix) : InCharset(prefix[i]) \/ prefix[i] = "_"
        /\ \A i \in 1..Len(suffix) : InCharset(suffix[i])

is_valid(token) ==
    LET last_delimiter == rfind(token, "_")
        prefix == PySliceTo(token, last_delimiter)
        suffix == PySliceFrom(token, last_delimiter + 1)
    IN  /\ \A i \in 1..Len(prefix) : InCharset(prefix[i]) \/ prefix[i] = "_"
        /\ \A i \in 1..Len(suffix) : InCharset(suffix[i])

\* what parse does: returns None, returns a ParsedToken, or raises
parse(token) ==
    IF ~is_valid(token) THEN [kind |-> "None"]
    ELSE LET last_delimiter == rfind(token, "_")
             prefix  == PySliceTo(token, last_delimiter)
             suffix  == PySliceFrom(token, last_delimiter + 1)
             ts_part == PySlice(suffix, 1, TsEnd)
         IN  IF IndexRaises(suffix, 0) THEN [kind |-> "IndexError"]
             ELSE IF decode_raises(lstrip(ts_part, "0")) THEN [kind |-> "ValueError"]
             ELSE [kind       |-> "ParsedToken",
                   prefix     |-> prefix,
                   generation |-> <<PyIndex(suffix, 0)>>,
                   timestamp  |-> _b62_decode(lstrip(ts_part, "0")),
                   entropy    |-> PySliceFrom(suffix, TsEnd)]

\* s.find(c): lowest 0-based index of c in s, -1 when c does not occur
find(s, c) ==
    IF \E i \in 1..Len(s) : s[i] = c
    THEN (CHOOSE i \in 1..Len(s) : s[i] = c /\ \A j \in 1..(i-1) : s[j] # c) - 1
    ELSE -1

\* faulty variant of swap_prefix: splits at the first '_' (find for rfind)
swap_prefix_first_delimiter(token, new_prefix) ==
    LET suffix == PySliceFrom(token, find(token, "_") + 1)
    IN  new_prefix \o <<"_">> \o suffix

swap_prefix(token, new_prefix) ==
    LET suffix == PySliceFrom(token, rfind(token, "_") + 1)
    IN  new_prefix \o <<"_">> \o suffix

(***************************************************************************)
(* Bounds and the inputs drawn from them                                   *)
(***************************************************************************)
MaxN == 130

MaxPow == 4

MaxClock == 1

MaxSampleStarts == 2

MaxTokenLen == 3

\* integers handed to the codec: a dense range and the digit-count boundaries
CodecInputs ==
    (0..MaxN) \cup {Pow(Base, k) : k \in 1..MaxPow}
              \cup {Pow(Base, k) - 1 : k \in 1..MaxPow}
              \cup {Pow(Base, k) + 1 : k \in 1..MaxPow}

\* generation arguments: registered at start, registrable, empty, outside the
\* charset, the delimiter, and too long
Generations == { <<"0">>, <<"4">>, <<>>, <<"!">>, <<"_">>, <<"1", "2">> }

\* prefix arguments; the last one is not a valid prefix
Prefixes == { <<>>, <<"p">>, <<"a", "_", "b">>, <<"p", "-">> }

ValidPrefix(p) == \A i \in 1..Len(p) : InCharset(p[i]) \/ p[i] = "_"

Timestamps ==
    { None, Float(FALSE, 0, FALSE), Float(FALSE, 0, TRUE), Float(FALSE, 1, TRUE),
      Float(FALSE, Base, FALSE), Float(FALSE, Pow(Base, 3) + 1, FALSE),
      Float(FALSE, Pow(Base, 4) - 1, TRUE),
      Float(TRUE, 0, FALSE), Float(TRUE, 1, TRUE), NaN, Infinity }

Entropies ==
    { IntEntropy(k) : k \in {-1, 0, DefaultEntropy, Len(B62_CHARSET), Len(B62_CHARSET) + 1} }
    \cup { StrEntropy(e) : e \in { <<"a", "b", "c", "1", "2", "3">>,
                                   <<"a", "_", "b">>, <<"a", "-">> } }
    \cup { OtherEntropy }

\* the outcomes of random.sample the model draws from
Samples(k) == { SampleAt(start, k) : start \in 0..(MaxSampleStarts - 1) }

RECURSIVE StringsOver(_, _)
StringsOver(chars, n) ==
    IF n = 0 THEN { <<>> }
    ELSE LET shorter == StringsOver(chars, n - 1)
         IN  shorter \cup { <<c>> \o s : c \in chars, s \in {t \in shorter : Len(t) = n - 1} }

\* token arguments that no call of new produced: every short string over a
\* few characters, and some of full length
Tokens ==
    StringsOver({"0", "z", "_", "-"}, MaxTokenLen)
    \cup { <<"p", "_", "0", "1", "2", "3", "4">>,
           <<"p", "_", "0", "0", "0", "0", "0", "0", "0", "1", "z", "a", "b">>,
           <<"a", "_", "b", "_", "4", "0", "0", "0", "0", "0", "0", "0", "0">>,
           <<"p", "_", "0", "0", "0", "0", "0", "0", "0", "1", "z", "a", "-">>,
           <<"p", "0", "0", "0", "0", "0", "0", "0", "1", "z", "a", "b">> }

NewPrefixes == { <<"n", "e", "w">>, <<"n", "_", "-">> }

Idle == [op |-> "idle"]

ClockStart == Float(FALSE, 1, FALSE)

(***************************************************************************)
(* State machine.  last is the call the caller made last, with its        *)
(* arguments, the registry as the call found it and what came back;       *)
(* accepted collects the arguments of the register_generation calls that  *)
(* returned normally.                                                      *)
(***************************************************************************)
Init ==
    /\ _VALID_GENERATIONS = {<<"0">>}
    /\ now = ClockStart
    /\ accepted = {}
    /\ last = Idle

\* the wall clock advances by half a second
Tick ==
    /\ last = Idle
    /\ IF now.half THEN now.sec < MaxClock ELSE TRUE
    /\ now' = IF now.half THEN Float(FALSE, now.sec + 1, FALSE)
              ELSE Float(FALSE, now.sec, TRUE)
    /\ UNCHANGED <<_VALID_GENERATIONS, accepted, last>>

\* a caller runs the codec one way and back
Codec(n) ==
    /\ last' = [op |-> "codec", n |-> n, encoded |-> _b62_encode(n),
                decoded |-> _b62_decode(_b62_encode(n))]
    /\ UNCHANGED <<_VALID_GENERATIONS, now, accepted>>

RegisterGeneration(generation) ==
    /\ _VALID_GENERATIONS' = register_generation(_VALID_GENERATIONS, generation)
    /\ accepted' = IF register_generation_raises(generation) THEN accepted
                   ELSE accepted \cup {generation}
    /\ last' = [op |-> "register_generation", generation |-> generation,
                before |-> _VALID_GENERATIONS,
                raised |-> IF register_generation_raises(generation)
                           THEN "ValueError" ELSE "none"]
    /\ UNCHANGED now

New(prefix, generation, timestamp, entropy) ==
    /\ LET raised == new_raises(_VALID_GENERATIONS, generation, timestamp, entropy, now)
       IN  IF raised # "none"
           THEN last' = [op |-> "new", prefix |-> prefix, generation |-> generation,
                         timestamp |-> timestamp, entropy |-> entropy,
                         before |-> _VALID_GENERATIONS, was_accepted |-> accepted,
                         raised |-> raised]
           ELSE \E drawn \in (IF entropy.kind = "int" THEN Samples(entropy.n) ELSE {<<>>}) :
                   last' = [op |-> "new", prefix |-> prefix, generation |-> generation,
                            timestamp |-> timestamp, entropy |-> entropy,
                            before |-> _VALID_GENERATIONS, was_accepted |-> accepted,
                            raised |-> "none",
                            token |-> new(prefix, generation, timestamp, entropy, now, drawn)]
    /\ UNCHANGED <<_VALID_GENERATIONS, now, accepted>>

\* the token a call is made on: one of the caller's own, or the one new has
\* just returned (of then keeps that call of new)
TokenArgs ==
    IF last = Idle THEN { [token |-> t, of |-> Idle] : t \in Tokens }
    ELSE IF last.op = "new" /\ last.raised = "none" THEN { [token |-> last.token, of |-> last] }
    ELSE {}

IsValid(arg) ==
    /\ last' = [op |-> "is_valid", token |-> arg.token, of |-> arg.of,
                before |-> _VALID_GENERATIONS, result |-> is_valid(arg.token)]
    /\ UNCHANGED <<_VALID_GENERATIONS, now, accepted>>

Parse(arg) ==
    /\ last' = [op |-> "parse", token |-> arg.token, of |-> arg.of,
                before |-> _VALID_GENERATIONS, result |-> parse(arg.token)]
    /\ UNCHANGED <<_VALID_GENERATIONS, now, accepted>>

SwapPrefix(arg, new_prefix) ==
    /\ last' = [op |-> "swap_prefix", token |-> arg.token, new_prefix |-> new_prefix,
                before |-> _VALID_GENERATIONS,
                result |-> swap_prefix(arg.token, new_prefix)]
    /\ UNCHANGED <<_VALID_GENERATIONS, now, accepted>>

\* the caller drops the result it holds
Return ==
    /\ last # Idle
    /\ last' = Idle
    /\ UNCHANGED <<_VALID_GENERATIONS, now, accepted>>

Next ==
    \/ Tick
    \/ last = Idle /\ \E n \in CodecInputs : Codec(n)
    \/ last = Idle /\ \E g \in Generations : RegisterGeneration(g)
    \/ last = Idle /\ \E p \in Prefixes, g \in Generations, t \in Timestamps, e \in Entropies :
                         New(p, g, t, e)
    \/ \E arg \in TokenArgs : IsValid(arg)
    \/ \E arg \in TokenArgs : Parse(arg)
    \/ \E arg \in TokenArgs, np \in NewPrefixes : SwapPrefix(arg, np)
    \/ Return

Spec == Init /\ [][Next]_vars

(***************************************************************************)
(* What the claims speak of, stated without Python's slicing               *)
(***************************************************************************)
HasDelimiter(token) == \E i \in 1..Len(token) : token[i] = "_"

\* 1-based position of the last '_' of a token that has one
LastDelimiter(token) ==
    CHOOSE i \in 1..Len(token) : token[i] = "_" /\ \A j \in (i+1)..Len(token) : token[j] # "_"

TextBefore(token) ==
    IF HasDelimiter(token) THEN SubSeq(token, 1, LastDelimiter(token) - 1) ELSE token

TextAfter(token) ==
    IF HasDelimiter(token) THEN SubSeq(token, LastDelimiter(token) + 1, Len(token)) ELSE <<>>

WellFormed(token) ==
    /\ \A i \in 1..Len(TextBefore(token)) :
          InCharset(TextBefore(token)[i]) \/ TextBefore(token)[i] = "_"
    /\ \A i \in 1..Len(TextAfter(token)) : InCharset(TextAfter(token)[i])

\* last is a call of is_valid or parse on the token a call new(p, g, ...) with a
\* valid prefix has just returned
OnNewToken(op) ==
    /\ last.op = op
    /\ last.of.op = "new"
    /\ ValidPrefix(last.of.prefix)

RegistryUntouched == _VALID_GENERATIONS = last.before

(***************************************************************************)
(* C1: decoding the encoding of a non-negative integer gives the integer   *)
(* back, and 0 is encoded as the one-character string "0".                 *)
(***************************************************************************)
C1_RoundTrip ==
    last.op = "codec" =>
        /\ last.decoded = last.n
        /\ last.n = 0 => last.encoded = <<"0">>

C1_Witness == last.op = "codec" /\ last.n = 0 /\ last.encoded = <<"0">>

(***************************************************************************)
(* C2: for every generation in the registry and every valid prefix, the    *)
(* token of new(p, g), with the default entropy and the wall clock, is     *)
(* accepted by is_valid.                                                   *)
(***************************************************************************)
C2_NewTokenIsValid ==
    ( /\ OnNewToken("is_valid")
      /\ last.of.timestamp = None
      /\ last.of.entropy = IntEntropy(DefaultEntropy) )
    => last.result = TRUE

(***************************************************************************)
(* C3: for every generation in the registry, every valid prefix and every  *)
(* timestamp, parse(new(p, g, t)) is a ParsedToken with prefix p and       *)
(* generation g.                                                           *)
(***************************************************************************)
C3_ParseRecoversPrefixAndGeneration ==
    ( /\ OnNewToken("parse")
      /\ last.of.timestamp # None
      /\ last.of.entropy = IntEntropy(DefaultEntropy) )
    => /\ last.result.kind = "ParsedToken"
       /\ last.result.prefix = last.of.prefix
       /\ last.result.generation = last.of.generation

(***************************************************************************)
(* C4: for every supplied timestamp t >= 0, parse(new(p, "0", t)) has the  *)
(* timestamp t truncated to whole seconds: the wall clock is used only     *)
(* when no timestamp is supplied.                                          *)
(***************************************************************************)
C4_SuppliedTimestampIsKept ==
    ( /\ OnNewToken("parse")
      /\ last.of.generation = <<"0">>
      /\ last.of.timestamp.kind = "float"
      /\ ~last.of.timestamp.neg
      /\ last.of.entropy = IntEntropy(DefaultEntropy) )
    => /\ last.result.kind = "ParsedToken"
       /\ last.result.timestamp = last.of.timestamp.sec

(***************************************************************************)
(* C5: for every literal entropy e, valid prefix and supplied timestamp    *)
(* t, a whole number of seconds >= 1, parse(new(p, "0", t, e)), when not   *)
(* absent, has entropy e.                                                  *)
(***************************************************************************)
C5_LiteralEntropyIsRecovered ==
    ( /\ OnNewToken("parse")
      /\ last.of.generation = <<"0">>
      /\ last.of.timestamp.kind = "float"
      /\ ~last.of.timestamp.neg
      /\ ~last.of.timestamp.half
      /\ last.of.timestamp.sec >= 1
      /\ last.of.entropy.kind = "str"
      /\ last.result.kind # "None" )
    => /\ last.result.kind = "ParsedToken"
       /\ last.result.entropy = last.of.entropy.s

(***************************************************************************)
(* C6: parse never raises: it returns None when is_valid(token) is false   *)
(* and a ParsedToken when it is true.                                      *)
(***************************************************************************)
C6_ParseNeverRaises ==
    last.op = "parse" =>
        last.result.kind = (IF is_valid(last.token) THEN "ParsedToken" ELSE "None")

(***************************************************************************)
(* C7: register_generation raises exactly when its argument is longer than *)
(* one character, and then leaves the registry as it was; new raises       *)
(* exactly when its generation is neither "0" nor the argument of an       *)
(* earlier successful register_generation; an accepted generation stays    *)
(* accepted, the registry only grows, and new, is_valid, parse and         *)
(* swap_prefix leave it alone.                                             *)
(***************************************************************************)
RegisterRaisesExactlyWhenLong ==
    last.op = "register_generation" =>
        /\ last.raised = "ValueError" <=> Len(last.generation) > 1
        /\ last.raised = "ValueError" => RegistryUntouched
        /\ last.before \subseteq _VALID_GENERATIONS

RegistryOnlyGrows ==
    /\ ({<<"0">>} \cup accepted) \subseteq _VALID_GENERATIONS
    /\ last.op \in {"new", "is_valid", "parse", "swap_prefix"} => RegistryUntouched

NewRaisesExactlyWhenUnregistered ==
    last.raised = "ValueError" <=> last.generation \notin ({<<"0">>} \cup last.was_accepted)

\* the claim as made: for every entropy argument that is an int or a str
C7_AnyWellTypedEntropy ==
    /\ RegisterRaisesExactlyWhenLong
    /\ RegistryOnlyGrows
    /\ (last.op = "new" /\ last.entropy.kind \in {"int", "str"})
            => NewRaisesExactlyWhenUnregistered

\* C7 as amended: for a timestamp that is absent or finite and an entropy
\* argument that is a str or a count of 0 to 62
C7_EntropyWithinCharset ==
    /\ RegisterRaisesExactlyWhenLong
    /\ RegistryOnlyGrows
    /\ ( /\ last.op = "new"
         /\ last.timestamp.kind \in {"None", "float"}
         /\ \/ last.entropy.kind = "str"
            \/ last.entropy.kind = "int" /\ last.entropy.n \in 0..Len(B62_CHARSET) )
            => /\ NewRaisesExactlyWhenUnregistered
               /\ last.raised \in {"none", "ValueError"}

C7_Witness ==
    /\ last.op = "new"
    /\ last.generation = <<"4">>
    /\ last.entropy = IntEntropy(Len(B62_CHARSET))
    /\ <<"4">> \in last.was_accepted
    /\ last.raised = "none"

(***************************************************************************)
(* C8: is_valid(token) is true exactly when every character before the     *)
(* last '_' is a base-62 character or '_' and every character after it is  *)
(* a base-62 character (with no '_': when every character is a base-62     *)
(* character), whatever the registry holds, which it leaves alone.         *)
(***************************************************************************)
C8_IsValidIsWellFormed ==
    last.op = "is_valid" =>
        /\ last.result =
              IF HasDelimiter(last.token) THEN WellFormed(last.token)
              ELSE \A i \in 1..Len(last.token) : InCharset(last.token[i])
        /\ RegistryUntouched

\* a token with '_' in its prefix and an unregistered generation is valid
C8_Witness ==
    /\ last.op = "is_valid"
    /\ last.token = <<"a", "_", "b", "_", "4", "0", "0", "0", "0", "0", "0", "0", "0">>
    /\ <<"4">> \notin _VALID_GENERATIONS
    /\ last.result = TRUE

(***************************************************************************)
(* C9: for a token that contains '_', valid or not, swap_prefix returns    *)
(* the new prefix, '_' and the token's text after its last '_', checks     *)
(* neither argument and leaves the registry alone.                         *)
(***************************************************************************)
C9_SwapPrefixKeepsSuffix ==
    (last.op = "swap_prefix" /\ HasDelimiter(last.token)) =>
        /\ last.result = last.new_prefix \o <<"_">> \o TextAfter(last.token)
        /\ RegistryUntouched

\* an invalid token with two '_' and an invalid new prefix
C9_Witness ==
    /\ last.op = "swap_prefix"
    /\ last.token = <<"_", "-", "_">>
    /\ last.new_prefix = <<"n", "_", "-">>
    /\ last.result = <<"n", "_", "-", "_">>

(***************************************************************************)
(* C10: a ParsedToken has as prefix the text before the last '_' and takes *)
(* generation, timestamp and entropy from the text after it; with no '_'   *)
(* in the token the prefix is the whole token and the suffix is empty.     *)
(***************************************************************************)
C10_FieldsSplitAtLastDelimiter ==
    (last.op = "parse" /\ last.result.kind = "ParsedToken") =>
        LET suffix == TextAfter(last.token)
        IN  /\ last.result.prefix = TextBefore(last.token)
            /\ suffix # <<>>
            /\ last.result.generation = <<suffix[1]>>
            /\ last.result.timestamp =
                  _b62_decode(lstrip(SubSeq(suffix, 2, IF Len(suffix) < TsEnd THEN Len(suffix) ELSE TsEnd), "0"))
            /\ last.result.entropy = SubSeq(suffix, TsEnd + 1, Len(suffix))

====
